---- MODULE Spec2Model ----
(***************************************************************************)
(* Model of the operation dispatch and computation layer of                *)
(* Module05/MCP/mcp-http-server.py: the two POST handlers                  *)
(* (math_operations, text_operations) and the computation functions they   *)
(* call.                                                                   *)
(*                                                                         *)
(* Values.  A Python float is modelled as an exact rational                *)
(* [num |-> n, den |-> d] in lowest terms with d > 0; results that are     *)
(* irrational (a square root of a non-square, a logarithm, a sine) are     *)
(* kept as expression records [op |-> .., l |-> .., r |-> ..].  A Python   *)
(* str is a sequence of one-character strings.  Optional[T] is <<>> for    *)
(* None and <<x>> for a value x.  A dict is a record.                      *)
(*                                                                         *)
(* Control flow.  A function's outcome is Return(v) or Raise(exc, args);   *)
(* every try/except of the source is an operator that maps outcomes.       *)
(***************************************************************************)
EXTENDS Integers, Sequences, FiniteSets, TLC

VARIABLES endpoint, request, response, pc, earlier

vars == <<endpoint, request, response, pc, earlier>>

(***************************************************************************)
(* Bounds of the explored inputs.                                          *)
(***************************************************************************)
\* numbers of the generated requests are the halves n/2, n in -MaxHalves..MaxHalves
MaxHalves == 3
\* longest generated `values` list
MaxLen == 3
\* statistics requests: numbers are the halves n/2, n in -StatMaxHalves..StatMaxHalves
StatMaxHalves == 2
\* statistics requests: longest `values` list
StatMaxLen == 4
\* longest generated text
MaxTextLen == 3
\* pig-latin requests: longest generated text
PigMaxTextLen == 4
\* repeated calls: longest generated list or text
RepeatMaxLen == 2
\* analyze requests: longest generated text
AnalyzeMaxTextLen == 5

(***************************************************************************)
(* Outcomes of a call, None, and the except clauses.                       *)
(***************************************************************************)
None == <<>>

Some(x) == <<x>>

Return(v) == [tag |-> "return", value |-> v]

\* raise exc(args): detail holds the pieces of str(e)
Raise(exc, args) == [tag |-> "raise", exc |-> exc, status_code |-> 0, detail |-> args]

HTTPException(status_code, detail) ==
    [tag |-> "raise", exc |-> "HTTPException", status_code |-> status_code,
     detail |-> detail]

\* The first outcome that raises, else the last: statements run in order.
Then(first, second) == IF first.tag = "raise" THEN first ELSE second

\* try: <out>  except Exception as e: raise HTTPException(400, f"{prefix}{str(e)}")
ExceptException400(out, prefix) ==
    IF out.tag = "raise" THEN HTTPException(400, <<prefix>> \o out.detail) ELSE out

\* The mutant of the handlers' except clauses: the exception is classified internal.
ExceptDispatchAllInternal(out) ==
    IF out.tag = "raise" THEN HTTPException(500, <<"Internal error: ">> \o out.detail)
    ELSE out

\* try: <out>  except HTTPException: raise
\*             except Exception as e: raise HTTPException(500, f"Internal error: {str(e)}")
ExceptDispatch(out) ==
    IF out.tag = "raise" /\ out.exc # "HTTPException"
    THEN HTTPException(500, <<"Internal error: ">> \o out.detail)
    ELSE out

(***************************************************************************)
(* Exact rational arithmetic: the model of float arithmetic.               *)
(***************************************************************************)
Abs(n) == IF n < 0 THEN -n ELSE n

RECURSIVE GCD(_, _)
GCD(m, n) == IF n = 0 THEN m ELSE GCD(n, m % n)

\* n/d in lowest terms, d # 0
Rat(n, d) ==
    LET g == GCD(Abs(n), Abs(d))
        s == IF d < 0 THEN -1 ELSE 1
    IN  [num |-> (s * n) \div g, den |-> (s * d) \div g]

Float(n) == [num |-> n, den |-> 1]

IsRat(x) == DOMAIN x = {"num", "den"}

RAdd(x, y) == Rat(x.num * y.den + y.num * x.den, x.den * y.den)

RNeg(x) == [num |-> -x.num, den |-> x.den]

RSub(x, y) == RAdd(x, RNeg(y))

RMul(x, y) == Rat(x.num * y.num, x.den * y.den)

\* y # 0
RDiv(x, y) == Rat(x.num * y.den, x.den * y.num)

RLt(x, y) == x.num * y.den < y.num * x.den

RLe(x, y) == x.num * y.den <= y.num * x.den

IsZero(x) == x.num = 0

IsSquare(n) == \E s \in 0..n : s * s = n

ISqrt(n) == CHOOSE s \in 0..n : s * s = n

\* a float expression whose value is not rational is kept as written
Expr(op, l, r) == [op |-> op, l |-> l, r |-> r]

\* x / y on floats: ZeroDivisionError when y == 0
FloatDiv(x, y) ==
    IF IsRat(y) /\ IsZero(y)
    THEN Raise("ZeroDivisionError", <<"float division by zero">>)
    ELSE Return(IF IsRat(x) /\ IsRat(y) THEN RDiv(x, y) ELSE Expr("/", x, y))

FloatAdd(x, y) == IF IsRat(x) /\ IsRat(y) THEN RAdd(x, y) ELSE Expr("+", x, y)

FloatSub(x, y) == IF IsRat(x) /\ IsRat(y) THEN RSub(x, y) ELSE Expr("-", x, y)

\* math.sqrt(x), x >= 0
math_sqrt(x) ==
    IF IsSquare(x.num) /\ IsSquare(x.den)
    THEN Rat(ISqrt(x.num), ISqrt(x.den))
    ELSE Expr("sqrt", x, None)

\* int(x): truncation toward zero
int(x) ==
    IF x.num >= 0 THEN x.num \div x.den ELSE -((-x.num) \div x.den)

RECURSIVE Product(_)
Product(n) == IF n = 0 THEN 1 ELSE n * Product(n - 1)

\* math.factorial(n) for an int n
math_factorial(n) ==
    IF n < 0
    THEN Raise("ValueError", <<"factorial() not defined for negative values">>)
    ELSE Return(Product(n))

RECURSIVE IntPow(_, _)
IntPow(x, n) == IF n = 0 THEN Float(1) ELSE RMul(x, IntPow(x, n - 1))

(***************************************************************************)
(* The statistics module, on a list of floats.                             *)
(***************************************************************************)
RECURSIVE sum(_)
sum(values) == IF values = <<>> THEN Float(0) ELSE RAdd(Head(values), sum(Tail(values)))

\* the position of the first least (greatest) element: min() and max() keep the first
min(values) ==
    values[CHOOSE i \in DOMAIN values :
              /\ \A j \in DOMAIN values : RLe(values[i], values[j])
              /\ \A k \in 1..(i - 1) : ~(\A j \in DOMAIN values : RLe(values[k], values[j]))]

max(values) ==
    values[CHOOSE i \in DOMAIN values :
              /\ \A j \in DOMAIN values : RLe(values[j], values[i])
              /\ \A k \in 1..(i - 1) : ~(\A j \in DOMAIN values : RLe(values[j], values[k]))]

RECURSIVE Insert(_, _)
Insert(x, s) ==
    IF s = <<>> THEN <<x>>
    ELSE IF RLt(x, Head(s)) THEN <<x>> \o s
    ELSE <<Head(s)>> \o Insert(x, Tail(s))

\* sorted(values): stable, ascending
RECURSIVE sorted(_)
sorted(values) ==
    IF values = <<>> THEN <<>>
    ELSE Insert(values[Len(values)], sorted(SubSeq(values, 1, Len(values) - 1)))

statistics_mean(values) ==
    IF Len(values) < 1
    THEN Raise("StatisticsError", <<"mean requires at least one data point">>)
    ELSE Return(RDiv(sum(values), Float(Len(values))))

\* statistics.median(values), values non-empty
statistics_median(values) ==
    LET data == sorted(values)
        n == Len(data)
    IN  IF n % 2 = 1 THEN data[(n \div 2) + 1]
        ELSE RDiv(RAdd(data[n \div 2], data[(n \div 2) + 1]), Float(2))

Occurrences(values, v) == Cardinality({i \in DOMAIN values : values[i] = v})

\* statistics.mode(values), values non-empty: Counter(values).most_common(1), the
\* first encountered of the most common values
statistics_mode(values) ==
    values[CHOOSE i \in DOMAIN values :
              /\ \A j \in DOMAIN values :
                    Occurrences(values, values[j]) <= Occurrences(values, values[i])
              /\ \A k \in 1..(i - 1) :
                    Occurrences(values, values[k]) < Occurrences(values, values[i])]

RECURSIVE SumSquares(_, _)
SumSquares(values, c) ==
    IF values = <<>> THEN Float(0)
    ELSE RAdd(RMul(RSub(Head(values), c), RSub(Head(values), c)),
              SumSquares(Tail(values), c))

\* statistics.variance(values), len(values) > 1: the sample variance
statistics_variance(values) ==
    RDiv(SumSquares(values, statistics_mean(values).value), Float(Len(values) - 1))

\* statistics.stdev(values), len(values) > 1
statistics_stdev(values) == math_sqrt(statistics_variance(values))

(***************************************************************************)
(* calculate_statistics                                                    *)
(***************************************************************************)
\* The mutant of std_dev_entry: no fallback for fewer than two values, where
\* statistics.stdev raises.
std_dev_entry_unguarded(values) ==
    IF Len(values) > 1 THEN Return(statistics_stdev(values))
    ELSE Raise("StatisticsError", <<"stdev requires at least two data points">>)

\* "std_dev": statistics.stdev(values) if len(values) > 1 else 0.0
std_dev_entry(values) ==
    IF Len(values) > 1 THEN Return(statistics_stdev(values)) ELSE Return(Float(0))

\* "variance": statistics.variance(values) if len(values) > 1 else 0.0
variance_entry(values) ==
    IF Len(values) > 1 THEN Return(statistics_variance(values)) ELSE Return(Float(0))

\* The mutant of mode_entry: statistics.mode is called whether or not a value
\* repeats.
mode_entry_unconditional(values) == Some(statistics_mode(values))

\* "mode": statistics.mode(values) if len(set(values)) < len(values) else None
mode_entry(values) ==
    IF Cardinality({values[i] : i \in DOMAIN values}) < Len(values)
    THEN Some(statistics_mode(values)) ELSE None

\* The mutant of range_entry: the operands are exchanged.
range_entry_reversed(values) == RSub(min(values), max(values))

\* "range": max(values) - min(values)
range_entry(values) == RSub(max(values), min(values))

\* The body of the try block: the dict is built entry by entry, in the order
\* written, and the first entry that raises ends it.  statistics.mean raises on an
\* empty list.
calculate_statistics_try(values) ==
    LET mean == statistics_mean(values)
        std_dev == std_dev_entry(values)
        variance == variance_entry(values)
    IN  Then(mean, Then(std_dev, Then(variance,
            Return([count |-> Len(values),
                    mean |-> mean.value,
                    median |-> statistics_median(values),
                    mode |-> mode_entry(values),
                    std_dev |-> std_dev.value,
                    variance |-> variance.value,
                    min |-> min(values),
                    max |-> max(values),
                    range |-> range_entry(values),
                    sum |-> sum(values)]))))

calculate_statistics(values) ==
    ExceptException400(calculate_statistics_try(values), "Error calculating statistics: ")

(***************************************************************************)
(* solve_quadratic                                                         *)
(***************************************************************************)
\* f"{x}": the text of a float
FormatFloat(x) == [repr |-> x]

\* f"{real_part} {sign} {imaginary_part}i"
FormatComplex(real_part, sign, imaginary_part) ==
    [str |-> <<FormatFloat(real_part), " ", sign, " ", FormatFloat(imaginary_part), "i">>]

\* The mutant of real_distinct: the two roots are listed smaller sign first.
real_distinct_swapped(a, b, discriminant) ==
    LET x1 == FloatDiv(FloatSub(RNeg(b), math_sqrt(discriminant)), RMul(Float(2), a))
        x2 == FloatDiv(FloatAdd(RNeg(b), math_sqrt(discriminant)), RMul(Float(2), a))
    IN  Then(x1, Then(x2,
            Return([discriminant |-> discriminant,
                    roots |-> <<x1.value, x2.value>>,
                    root_type |-> "real_distinct"])))

\* if discriminant > 0: two distinct real roots
real_distinct(a, b, discriminant) ==
    LET x1 == FloatDiv(FloatAdd(RNeg(b), math_sqrt(discriminant)), RMul(Float(2), a))
        x2 == FloatDiv(FloatSub(RNeg(b), math_sqrt(discriminant)), RMul(Float(2), a))
    IN  Then(x1, Then(x2,
            Return([discriminant |-> discriminant,
                    roots |-> <<x1.value, x2.value>>,
                    root_type |-> "real_distinct"])))

\* elif discriminant == 0: one repeated real root
real_repeated(a, b, discriminant) ==
    LET x == FloatDiv(RNeg(b), RMul(Float(2), a))
    IN  Then(x,
            Return([discriminant |-> discriminant,
                    roots |-> <<x.value>>,
                    root_type |-> "real_repeated"]))

\* else: two complex conjugate roots, as text
complex_roots(a, b, discriminant) ==
    LET real_part == FloatDiv(RNeg(b), RMul(Float(2), a))
        imaginary_part == FloatDiv(math_sqrt(RNeg(discriminant)), RMul(Float(2), a))
    IN  Then(real_part, Then(imaginary_part,
            Return([discriminant |-> discriminant,
                    roots |-> <<FormatComplex(real_part.value, "+", imaginary_part.value),
                                FormatComplex(real_part.value, "-", imaginary_part.value)>>,
                    root_type |-> "complex"])))

\* The mutant of solve_quadratic_try: a == 0 with b != 0 is answered as the linear
\* equation b*x + c = 0 instead of dividing by 2*a.
solve_quadratic_linear_fallback(a, b, c) ==
    LET discriminant == RSub(RMul(b, b), RMul(RMul(Float(4), a), c))
    IN  IF IsZero(a) /\ ~IsZero(b)
        THEN Return([discriminant |-> discriminant,
                     roots |-> <<RDiv(RNeg(c), b)>>,
                     root_type |-> "real_repeated"])
        ELSE IF RLt(Float(0), discriminant) THEN real_distinct(a, b, discriminant)
        ELSE IF IsZero(discriminant) THEN real_repeated(a, b, discriminant)
        ELSE complex_roots(a, b, discriminant)

\* The body of the try block.
solve_quadratic_try(a, b, c) ==
    LET discriminant == RSub(RMul(b, b), RMul(RMul(Float(4), a), c))
    IN  IF RLt(Float(0), discriminant) THEN real_distinct(a, b, discriminant)
        ELSE IF IsZero(discriminant) THEN real_repeated(a, b, discriminant)
        ELSE complex_roots(a, b, discriminant)

solve_quadratic(a, b, c) ==
    ExceptException400(solve_quadratic_try(a, b, c), "Error solving quadratic: ")

(***************************************************************************)
(* advanced_math_operations                                                *)
(***************************************************************************)
\* math.log(x)
math_log(x) ==
    IF RLe(x, Float(0)) THEN Raise("ValueError", <<"math domain error">>)
    ELSE Return(IF x = Float(1) THEN Float(0) ELSE Expr("log", x, None))

\* math.log(x, base) = log(x) / log(base)
math_log_base(x, base) ==
    LET num == math_log(x)
        den == math_log(base)
    IN  Then(num, Then(den, FloatDiv(num.value, den.value)))

math_sin(x) == IF IsZero(x) THEN Float(0) ELSE Expr("sin", x, None)

math_cos(x) == IF IsZero(x) THEN Float(1) ELSE Expr("cos", x, None)

math_tan(x) == IF IsZero(x) THEN Float(0) ELSE Expr("tan", x, None)

math_degrees(x) == IF IsZero(x) THEN Float(0) ELSE Expr("degrees", x, None)

\* math.pow(x, y)
math_pow(x, y) ==
    IF IsZero(x) /\ RLt(y, Float(0)) THEN Raise("ValueError", <<"math domain error">>)
    ELSE IF RLt(x, Float(0)) /\ y.den # 1
    THEN Raise("ValueError", <<"math domain error">>)
    ELSE IF y.den = 1
    THEN Return(IF y.num >= 0 THEN IntPow(x, y.num)
                ELSE RDiv(Float(1), IntPow(x, -y.num)))
    ELSE Return(IF IsZero(x) THEN Float(0)
                ELSE IF x = Float(1) THEN Float(1) ELSE Expr("pow", x, y))

\* The mutant of advanced_factorial: the guard on the argument is dropped.
advanced_factorial_unguarded(values) ==
    IF Len(values) = 0 THEN Raise("IndexError", <<"list index out of range">>)
    ELSE math_factorial(int(values[1]))

\* operation == "factorial"
advanced_factorial(values) ==
    IF Len(values) # 1 \/ RLt(values[1], Float(0)) \/ values[1] # Float(int(values[1]))
    THEN Raise("ValueError", <<"Factorial requires a single non-negative integer">>)
    ELSE math_factorial(int(values[1]))

\* The mutant of advanced_logarithm: any other count falls back to the natural log
\* of the first value, or of 1 when there is none.
advanced_logarithm_lenient(values) ==
    IF Len(values) = 2 THEN math_log_base(values[1], values[2])
    ELSE IF Len(values) >= 1 THEN math_log(values[1])
    ELSE Return(Float(0))

\* operation == "logarithm"
advanced_logarithm(values) ==
    IF Len(values) = 1 THEN math_log(values[1])
    ELSE IF Len(values) = 2 THEN math_log_base(values[1], values[2])
    ELSE Raise("ValueError", <<"Logarithm requires 1 or 2 values">>)

\* operation == "trigonometry"
advanced_trigonometry(values) ==
    IF Len(values) # 1
    THEN Raise("ValueError", <<"Trigonometry requires 1 value (angle in radians)">>)
    ELSE LET angle == values[1]
         IN  Return([sin |-> math_sin(angle),
                     cos |-> math_cos(angle),
                     tan |-> math_tan(angle),
                     angle_radians |-> angle,
                     angle_degrees |-> math_degrees(angle)])

\* operation == "power"
advanced_power(values) ==
    IF Len(values) # 2
    THEN Raise("ValueError", <<"Power operation requires base and exponent">>)
    ELSE math_pow(values[1], values[2])

\* The body of the try block.
advanced_math_operations_try(operation, values) ==
    IF operation = "factorial" THEN advanced_factorial(values)
    ELSE IF operation = "logarithm" THEN advanced_logarithm(values)
    ELSE IF operation = "trigonometry" THEN advanced_trigonometry(values)
    ELSE IF operation = "power" THEN advanced_power(values)
    ELSE Raise("ValueError", <<"Unknown operation: ", operation>>)

advanced_math_operations(operation, values) ==
    ExceptException400(advanced_math_operations_try(operation, values),
                       "Error in math operation: ")

(***************************************************************************)
(* POST /math                                                              *)
(***************************************************************************)
\* MathResponse(result=.., operation=.., success=..): message defaults to None
MathResponse(result, operation, success) ==
    Return([result |-> result, operation |-> operation, success |-> success,
            message |-> None])

\* The body of the try block.
math_operations_try(req) ==
    IF req.operation = "statistics"
    THEN LET result == calculate_statistics(req.values)
         IN  Then(result, MathResponse(result.value, req.operation, TRUE))
    ELSE IF req.operation = "quadratic"
    THEN IF req.a = None \/ req.b = None \/ req.c = None
         THEN HTTPException(400, <<"Quadratic equation requires a, b, c coefficients">>)
         ELSE LET result == solve_quadratic(req.a[1], req.b[1], req.c[1])
              IN  Then(result, MathResponse(result.value, req.operation, TRUE))
    ELSE IF req.operation \in {"factorial", "logarithm", "trigonometry", "power"}
    THEN LET result == advanced_math_operations(req.operation, req.values)
         IN  Then(result, MathResponse(result.value, req.operation, TRUE))
    ELSE HTTPException(400, <<"Unknown math operation: ", req.operation>>)

\* The mutant of math_operations: the handler shares a note of the calls served
\* and refuses every call after the first.
math_operations_once(req) ==
    IF earlier # None
    THEN HTTPException(500, <<"Internal error: ", "already served">>)
    ELSE ExceptDispatch(math_operations_try(req))

math_operations(req) == ExceptDispatch(math_operations_try(req))

(***************************************************************************)
(* Characters and the str methods the text functions use.                  *)
(***************************************************************************)
LowerLetters ==
    <<"a", "b", "c", "d", "e", "f", "g", "h", "i", "j", "k", "l", "m", "n",
      "o", "p", "q", "r", "s", "t", "u", "v", "w", "x", "y", "z">>

UpperLetters ==
    <<"A", "B", "C", "D", "E", "F", "G", "H", "I", "J", "K", "L", "M", "N",
      "O", "P", "Q", "R", "S", "T", "U", "V", "W", "X", "Y", "Z">>

Digits == {"0", "1", "2", "3", "4", "5", "6", "7", "8", "9"}

Whitespace == {" ", "\t", "\n", "\r", "\f"}

Range(s) == {s[i] : i \in DOMAIN s}

\* c.isupper(), c.islower(), c.isdigit(), c.isalnum(), c.isspace()
isupper(c) == c \in Range(UpperLetters)

islower(c) == c \in Range(LowerLetters)

isdigit(c) == c \in Digits

isalnum(c) == isupper(c) \/ islower(c) \/ isdigit(c)

isspace(c) == c \in Whitespace

\* c.lower(), c.upper() of one character
lower(c) ==
    IF isupper(c) THEN LowerLetters[CHOOSE i \in DOMAIN UpperLetters : UpperLetters[i] = c]
    ELSE c

upper(c) ==
    IF islower(c) THEN UpperLetters[CHOOSE i \in DOMAIN LowerLetters : LowerLetters[i] = c]
    ELSE c

\* text.upper(), text.lower()
str_upper(text) == [i \in DOMAIN text |-> upper(text[i])]

str_lower(text) == [i \in DOMAIN text |-> lower(text[i])]

\* text.title(): a cased character is upper-cased after an uncased one (or at the
\* start) and lower-cased after a cased one
str_title(text) ==
    [i \in DOMAIN text |->
        IF i > 1 /\ (isupper(text[i - 1]) \/ islower(text[i - 1]))
        THEN lower(text[i]) ELSE upper(text[i])]

\* text[::-1]
str_reverse(text) == [i \in DOMAIN text |-> text[Len(text) + 1 - i]]

\* text.split(): the maximal runs of non-whitespace characters, in order
RECURSIVE SplitFrom(_, _, _)
SplitFrom(text, i, word) ==
    IF i > Len(text) THEN (IF word = <<>> THEN <<>> ELSE <<word>>)
    ELSE IF isspace(text[i])
    THEN (IF word = <<>> THEN <<>> ELSE <<word>>) \o SplitFrom(text, i + 1, <<>>)
    ELSE SplitFrom(text, i + 1, Append(word, text[i]))

str_split(text) == SplitFrom(text, 1, <<>>)

\* " ".join(words)
RECURSIVE str_join(_, _)
str_join(sep, words) ==
    IF words = <<>> THEN <<>>
    ELSE IF Len(words) = 1 THEN words[1]
    ELSE words[1] \o sep \o str_join(sep, Tail(words))

(***************************************************************************)
(* transform_text                                                          *)
(***************************************************************************)
Vowels == {"a", "e", "i", "o", "u"}

TrailingPunctuation == {".", ",", "!", "?", ";", ":"}

\* The mutant of first_vowel: the word is not lower-cased before the search.
first_vowel_case_sensitive(clean_word) ==
    IF \E i \in DOMAIN clean_word : clean_word[i] \in Vowels
    THEN (CHOOSE i \in DOMAIN clean_word :
             /\ clean_word[i] \in Vowels
             /\ \A k \in 1..(i - 1) : clean_word[k] \notin Vowels) - 1
    ELSE Len(clean_word)

\* for i, char in enumerate(clean_word.lower()): if char in 'aeiou': break
\* else: first_vowel = len(clean_word).  Positions count from 0 as in the source.
first_vowel(clean_word) ==
    IF \E i \in DOMAIN clean_word : lower(clean_word[i]) \in Vowels
    THEN (CHOOSE i \in DOMAIN clean_word :
             /\ lower(clean_word[i]) \in Vowels
             /\ \A k \in 1..(i - 1) : lower(clean_word[k]) \notin Vowels) - 1
    ELSE Len(clean_word)

\* The mutant of pig_latin_word: a word that is empty once its punctuation is
\* detached is treated as a word without a vowel.
pig_latin_word_unguarded(word) ==
    LET strip == word # <<>> /\ word[Len(word)] \in TrailingPunctuation
        punctuation == IF strip THEN <<word[Len(word)]>> ELSE <<>>
        clean_word == IF strip THEN SubSeq(word, 1, Len(word) - 1) ELSE word
    IN  IF clean_word # <<>> /\ lower(clean_word[1]) \in Vowels
        THEN clean_word \o <<"w", "a", "y">> \o punctuation
        ELSE SubSeq(clean_word, first_vowel(clean_word) + 1, Len(clean_word))
             \o SubSeq(clean_word, 1, first_vowel(clean_word))
             \o <<"a", "y">> \o punctuation

\* The body of the loop over the words: one word of the input to one word of the
\* output.
pig_latin_word(word) ==
    LET strip == word # <<>> /\ word[Len(word)] \in TrailingPunctuation
        punctuation == IF strip THEN <<word[Len(word)]>> ELSE <<>>
        clean_word == IF strip THEN SubSeq(word, 1, Len(word) - 1) ELSE word
    IN  IF clean_word # <<>>
        THEN IF lower(clean_word[1]) \in Vowels
             THEN clean_word \o <<"w", "a", "y">> \o punctuation
             ELSE SubSeq(clean_word, first_vowel(clean_word) + 1, Len(clean_word))
                  \o SubSeq(clean_word, 1, first_vowel(clean_word))
                  \o <<"a", "y">> \o punctuation
        ELSE word

pig_latin(text) ==
    LET words == str_split(text)
        pig_latin_words == [i \in DOMAIN words |-> pig_latin_word(words[i])]
    IN  str_join(<<" ">>, pig_latin_words)

\* The body of the try block.
transform_text_try(text, transformation) ==
    IF transformation = "upper" THEN Return(str_upper(text))
    ELSE IF transformation = "lower" THEN Return(str_lower(text))
    ELSE IF transformation = "title" THEN Return(str_title(text))
    ELSE IF transformation = "reverse" THEN Return(str_reverse(text))
    ELSE IF transformation = "pig_latin" THEN Return(pig_latin(text))
    ELSE Raise("ValueError", <<"Unknown transformation: ", transformation>>)

transform_text(text, transformation) ==
    ExceptException400(transform_text_try(text, transformation),
                       "Error transforming text: ")

(***************************************************************************)
(* analyze_text                                                            *)
(***************************************************************************)
\* text.split(sep) for a non-empty separator: the pieces between the
\* non-overlapping occurrences of sep, found left to right, empty pieces kept
RECURSIVE SplitSepFrom(_, _, _, _)
SplitSepFrom(text, sep, i, piece) ==
    IF i > Len(text) THEN <<piece>>
    ELSE IF i + Len(sep) - 1 <= Len(text) /\ SubSeq(text, i, i + Len(sep) - 1) = sep
    THEN <<piece>> \o SplitSepFrom(text, sep, i + Len(sep), <<>>)
    ELSE SplitSepFrom(text, sep, i + 1, Append(piece, text[i]))

str_split_sep(text, sep) == SplitSepFrom(text, sep, 1, <<>>)

\* s.strip(chars): leading and trailing characters of the set removed
RECURSIVE str_strip(_, _)
str_strip(s, chars) ==
    IF s = <<>> THEN s
    ELSE IF Head(s) \in chars THEN str_strip(Tail(s), chars)
    ELSE IF s[Len(s)] \in chars THEN str_strip(SubSeq(s, 1, Len(s) - 1), chars)
    ELSE s

WordPunctuation == {".", ",", "!", "?", ";", ":", "\"", "(", ")", "[", "]", "{", "}"}

RECURSIVE SumLengths(_)
SumLengths(word_lengths) ==
    IF word_lengths = <<>> THEN 0 ELSE Head(word_lengths) + SumLengths(Tail(word_lengths))

\* round(x, 2) for x >= 0: the nearest hundredth, an exact tie to the even one
round2(x) ==
    LET q == (x.num * 100) \div x.den
        r == (x.num * 100) % x.den
    IN  IF 2 * r < x.den THEN Rat(q, 100)
        ELSE IF 2 * r > x.den THEN Rat(q + 1, 100)
        ELSE Rat(IF q % 2 = 0 THEN q ELSE q + 1, 100)

\* The mutant of max_by_len: the last of the longest instead of the first.
max_by_len_last(words) ==
    words[CHOOSE i \in DOMAIN words :
             /\ \A j \in DOMAIN words : Len(words[j]) <= Len(words[i])
             /\ \A k \in (i + 1)..Len(words) : Len(words[k]) < Len(words[i])]

\* max(words, key=len) and min(words, key=len): the first of the longest (shortest)
max_by_len(words) ==
    words[CHOOSE i \in DOMAIN words :
             /\ \A j \in DOMAIN words : Len(words[j]) <= Len(words[i])
             /\ \A k \in 1..(i - 1) : Len(words[k]) < Len(words[i])]

min_by_len(words) ==
    words[CHOOSE i \in DOMAIN words :
             /\ \A j \in DOMAIN words : Len(words[i]) <= Len(words[j])
             /\ \A k \in 1..(i - 1) : Len(words[i]) < Len(words[k])]

\* The mutant of sentences: the empty fragments are kept.
sentences_unfiltered(text) ==
    LET fragments == str_split_sep(text, <<".">>)
    IN  [i \in DOMAIN fragments |-> str_strip(fragments[i], Whitespace)]

\* sentences = text.split('.'); sentences = [s.strip() for s in sentences if s.strip()]
sentences(text) ==
    LET fragments == str_split_sep(text, <<".">>)
    IN  SelectSeq([i \in DOMAIN fragments |-> str_strip(fragments[i], Whitespace)],
                  LAMBDA f : f # <<>>)

\* The body of the try block: nothing in it raises, each division is guarded.
analyze_text_try(text) ==
    LET words == str_split(text)
        char_counts == [total_chars |-> Len(text),
                        chars_no_spaces |-> Cardinality({i \in DOMAIN text : text[i] # " "}),
                        uppercase |-> Cardinality({i \in DOMAIN text : isupper(text[i])}),
                        lowercase |-> Cardinality({i \in DOMAIN text : islower(text[i])}),
                        digits |-> Cardinality({i \in DOMAIN text : isdigit(text[i])}),
                        special_chars |->
                            Cardinality({i \in DOMAIN text :
                                            ~isalnum(text[i]) /\ ~isspace(text[i])})]
        word_lengths == [i \in DOMAIN words |-> Len(str_strip(words[i], WordPunctuation))]
        avg_word_length == IF word_lengths # <<>>
                           THEN Rat(SumLengths(word_lengths), Len(word_lengths))
                           ELSE Float(0)
    IN  Return([word_count |-> Len(words),
                sentence_count |-> Len(sentences(text)),
                paragraph_count |-> Len(str_split_sep(text, <<"\n", "\n">>)),
                avg_word_length |-> round2(avg_word_length),
                avg_sentence_length |-> IF sentences(text) # <<>>
                                        THEN round2(Rat(Len(words), Len(sentences(text))))
                                        ELSE Float(0),
                character_analysis |-> char_counts,
                longest_word |-> IF words # <<>> THEN max_by_len(words) ELSE <<>>,
                shortest_word |-> IF words # <<>> THEN min_by_len(words) ELSE <<>>])

analyze_text(text) == ExceptException400(analyze_text_try(text), "Error analyzing text: ")

(***************************************************************************)
(* Regular expressions: the patterns of extract_information as syntax      *)
(* trees, and re.findall as a backtracking matcher.  A matcher state is    *)
(* [pos, caps]: the next position to read and the groups captured so far.  *)
(* Match gives the states a node can end in, in the order a backtracking   *)
(* search tries them (a greedy quantifier tries more repetitions first).   *)
(***************************************************************************)
Chars(set) == [t |-> "set", chars |-> set]

Lit(c) == Chars({c})

Cat(parts) == [t |-> "cat", parts |-> parts]

Alt(parts) == [t |-> "alt", parts |-> parts]

\* body{lo,hi}, greedy; hi = -1 is unbounded
Rep(body, lo, hi) == [t |-> "rep", body |-> body, lo |-> lo, hi |-> hi]

Opt(body) == Rep(body, 0, 1)

Plus(body) == Rep(body, 1, -1)

Group(body) == [t |-> "group", body |-> body]

WordBoundary == [t |-> "b"]

Letters == Range(LowerLetters) \cup Range(UpperLetters)

\* \w
IsWordChar(c) == c \in Letters \cup Digits \cup {"_"}

\* \b at pos: exactly one of the characters before and at pos is a word character
AtWordBoundary(text, pos) ==
    LET before == pos > 1 /\ IsWordChar(text[pos - 1])
        after == pos <= Len(text) /\ IsWordChar(text[pos])
    IN  before # after

\* the first occurrence of each element, in order
RECURSIVE Dedupe(_)
Dedupe(states) ==
    IF states = <<>> THEN <<>>
    ELSE LET rest == Dedupe(SubSeq(states, 1, Len(states) - 1))
             last == states[Len(states)]
         IN  IF \E i \in DOMAIN rest : rest[i] = last THEN rest ELSE Append(rest, last)

RECURSIVE Match(_, _, _), MatchEach(_, _, _), MatchCat(_, _, _), MatchAlt(_, _, _),
          MatchRep(_, _, _, _, _), MatchRepEach(_, _, _, _, _), Capture(_, _, _)
Match(node, text, st) ==
    CASE node.t = "set" ->
            IF st.pos <= Len(text) /\ text[st.pos] \in node.chars
            THEN <<[st EXCEPT !.pos = @ + 1]>> ELSE <<>>
      [] node.t = "b" -> IF AtWordBoundary(text, st.pos) THEN <<st>> ELSE <<>>
      [] node.t = "cat" -> MatchCat(node.parts, text, <<st>>)
      [] node.t = "alt" -> Dedupe(MatchAlt(node.parts, text, st))
      [] node.t = "rep" -> MatchRep(node.body, node.lo, node.hi, text, st)
      [] node.t = "group" -> Capture(Match(node.body, text, st), text, st.pos)

MatchEach(node, text, states) ==
    IF states = <<>> THEN <<>>
    ELSE Match(node, text, Head(states)) \o MatchEach(node, text, Tail(states))

MatchCat(parts, text, states) ==
    IF parts = <<>> THEN states
    ELSE MatchCat(Tail(parts), text, Dedupe(MatchEach(Head(parts), text, states)))

MatchAlt(parts, text, st) ==
    IF parts = <<>> THEN <<>>
    ELSE Match(Head(parts), text, st) \o MatchAlt(Tail(parts), text, st)

MatchRep(body, lo, hi, text, st) ==
    LET once == IF hi = 0 THEN <<>>
                ELSE SelectSeq(Dedupe(Match(body, text, st)), LAMBDA r : r.pos > st.pos)
        more == MatchRepEach(body, IF lo > 0 THEN lo - 1 ELSE 0,
                             IF hi > 0 THEN hi - 1 ELSE hi, text, once)
    IN  Dedupe(more \o (IF lo = 0 THEN <<st>> ELSE <<>>))

MatchRepEach(body, lo, hi, text, states) ==
    IF states = <<>> THEN <<>>
    ELSE MatchRep(body, lo, hi, text, Head(states))
         \o MatchRepEach(body, lo, hi, text, Tail(states))

Capture(states, text, from) ==
    IF states = <<>> THEN <<>>
    ELSE <<[Head(states) EXCEPT
              !.caps = Append(@, SubSeq(text, from, Head(states).pos - 1))]>>
         \o Capture(Tail(states), text, from)

\* re.findall(pattern, text): the leftmost match at each position, the search
\* resuming where the match ended; with groups in the pattern the tuple of the
\* groups, else the matched text.  No pattern here matches the empty string.
RECURSIVE FindAllFrom(_, _, _, _)
FindAllFrom(pattern, grouped, text, pos) ==
    IF pos > Len(text) THEN <<>>
    ELSE LET found == Match(pattern, text, [pos |-> pos, caps |-> <<>>])
         IN  IF found = <<>> THEN FindAllFrom(pattern, grouped, text, pos + 1)
             ELSE <<IF grouped THEN found[1].caps
                    ELSE SubSeq(text, pos, found[1].pos - 1)>>
                  \o FindAllFrom(pattern, grouped, text, found[1].pos)

re_findall(pattern, grouped, text) == FindAllFrom(pattern, grouped, text, 1)

(***************************************************************************)
(* extract_information                                                     *)
(***************************************************************************)
\* \b[A-Za-z0-9._%+-]+@[A-Za-z0-9.-]+\.[A-Z|a-z]{2,}\b
EmailPattern ==
    Cat(<<WordBoundary,
          Plus(Chars(Letters \cup Digits \cup {".", "_", "%", "+", "-"})),
          Lit("@"),
          Plus(Chars(Letters \cup Digits \cup {".", "-"})),
          Lit("."),
          Rep(Chars(Letters \cup {"|"}), 2, -1),
          WordBoundary>>)

\* the class [$-_@.&+]: the range from $ to _ and four more characters
DollarToUnderscore ==
    {"$", "%", "&", "'", "(", ")", "*", "+", ",", "-", ".", "/", ":", ";", "<", "=",
     ">", "?", "@", "[", "\\", "]", "^", "_"} \cup Digits \cup Range(UpperLetters)

HexDigits == Digits \cup {"a", "b", "c", "d", "e", "f", "A", "B", "C", "D", "E", "F"}

\* http[s]?://(?:[a-zA-Z]|[0-9]|[$-_@.&+]|[!*\\(\\),]|(?:%[0-9a-fA-F][0-9a-fA-F]))+
UrlPattern ==
    Cat(<<Lit("h"), Lit("t"), Lit("t"), Lit("p"), Opt(Lit("s")),
          Lit(":"), Lit("/"), Lit("/"),
          Plus(Alt(<<Chars(Letters),
                     Chars(Digits),
                     Chars(DollarToUnderscore \cup {"@", ".", "&", "+"}),
                     Chars({"!", "*", "\\", "(", ")", ","}),
                     Cat(<<Lit("%"), Chars(HexDigits), Chars(HexDigits)>>)>>))>>)

Separator == Opt(Chars({"-", "."} \cup Whitespace))

\* \b(?:\+?1[-.\s]?)?\(?([0-9]{3})\)?[-.\s]?([0-9]{3})[-.\s]?([0-9]{4})\b
PhonePattern ==
    Cat(<<WordBoundary,
          Opt(Cat(<<Opt(Lit("+")), Lit("1"), Separator>>)),
          Opt(Lit("(")),
          Group(Rep(Chars(Digits), 3, 3)),
          Opt(Lit(")")),
          Separator,
          Group(Rep(Chars(Digits), 3, 3)),
          Separator,
          Group(Rep(Chars(Digits), 4, 4)),
          WordBoundary>>)

\* \b(?:\d{1,2}[/-]\d{1,2}[/-]\d{2,4}|\d{4}[/-]\d{1,2}[/-]\d{1,2})\b
DatePattern ==
    Cat(<<WordBoundary,
          Alt(<<Cat(<<Rep(Chars(Digits), 1, 2), Chars({"/", "-"}),
                      Rep(Chars(Digits), 1, 2), Chars({"/", "-"}),
                      Rep(Chars(Digits), 2, 4)>>),
                Cat(<<Rep(Chars(Digits), 4, 4), Chars({"/", "-"}),
                      Rep(Chars(Digits), 1, 2), Chars({"/", "-"}),
                      Rep(Chars(Digits), 1, 2)>>)>>),
          WordBoundary>>)

\* \b\d+(?:\.\d+)?\b
NumberPattern ==
    Cat(<<WordBoundary,
          Plus(Chars(Digits)),
          Opt(Cat(<<Lit("."), Plus(Chars(Digits))>>)),
          WordBoundary>>)

\* patterns.keys(), in the order the dict is written
PatternKeys == <<"emails", "urls", "phone_numbers", "dates", "numbers">>

patterns(extraction_type) ==
    CASE extraction_type = "emails" -> EmailPattern
      [] extraction_type = "urls" -> UrlPattern
      [] extraction_type = "phone_numbers" -> PhonePattern
      [] extraction_type = "dates" -> DatePattern
      [] extraction_type = "numbers" -> NumberPattern

\* ', '.join(keys) as the pieces of the message
RECURSIVE JoinPieces(_, _)
JoinPieces(sep, pieces) ==
    IF pieces = <<>> THEN <<>>
    ELSE IF Len(pieces) = 1 THEN pieces
    ELSE <<pieces[1], sep>> \o JoinPieces(sep, Tail(pieces))

\* The mutant of FormatPhone: the groups are joined as the input wrote them.
FormatPhoneDashed(match) == match[1] \o <<"-">> \o match[2] \o <<"-">> \o match[3]

\* f"({match[0]}) {match[1]}-{match[2]}"
FormatPhone(match) ==
    <<"(">> \o match[1] \o <<")", " ">> \o match[2] \o <<"-">> \o match[3]

\* The mutant of UnknownExtractionType: the message names only the type asked for.
UnknownExtractionTypeBare(extraction_type) ==
    Raise("ValueError", <<"Unknown extraction type '", extraction_type, "'">>)

\* raise ValueError(f"Unknown extraction type '{extraction_type}'. Available: {available_types}")
UnknownExtractionType(extraction_type) ==
    LET available_types == JoinPieces(", ", PatternKeys)
    IN  Raise("ValueError",
              <<"Unknown extraction type '", extraction_type, "'. Available: ">>
              \o available_types)

\* The body of the try block.
extract_information_try(text, extraction_type) ==
    IF extraction_type \notin Range(PatternKeys)
    THEN UnknownExtractionType(extraction_type)
    ELSE IF extraction_type = "phone_numbers"
    THEN LET matches == re_findall(patterns(extraction_type), TRUE, text)
         IN  Return([i \in DOMAIN matches |-> FormatPhone(matches[i])])
    ELSE Return(re_findall(patterns(extraction_type), FALSE, text))

extract_information(text, extraction_type) ==
    ExceptException400(extract_information_try(text, extraction_type),
                       "Error extracting information: ")

(***************************************************************************)
(* POST /text                                                              *)
(***************************************************************************)
\* json.dumps(obj, indent=2): the JSON text of obj
json_dumps(obj) == [json |-> obj]

\* TextResponse(result=.., operation=.., success=..): message defaults to None
TextResponse(result, operation, success) ==
    Return([result |-> result, operation |-> operation, success |-> success,
            message |-> None])

\* not request.extraction_type: None or the empty string
IsFalsy(extraction_type) == extraction_type = None \/ extraction_type = Some("")

\* The body of the try block.
text_operations_try(req) ==
    IF req.operation = "analyze"
    THEN LET result == analyze_text(req.text)
         IN  Then(result, TextResponse(json_dumps(result.value), req.operation, TRUE))
    ELSE IF req.operation = "transform"
    THEN IF IsFalsy(req.extraction_type)
         THEN HTTPException(400, <<"Transform operation requires transformation type">>)
         ELSE LET result == transform_text(req.text, req.extraction_type[1])
              IN  Then(result, TextResponse(result.value, req.operation, TRUE))
    ELSE IF req.operation = "extract"
    THEN IF IsFalsy(req.extraction_type)
         THEN HTTPException(400, <<"Extract operation requires extraction type">>)
         ELSE LET result == extract_information(req.text, req.extraction_type[1])
              IN  Then(result, TextResponse(json_dumps(result.value), req.operation, TRUE))
    ELSE HTTPException(400, <<"Unknown text operation: ", req.operation>>)

text_operations(req) == ExceptDispatch(text_operations_try(req))

(***************************************************************************)
(* The requests explored.                                                  *)
(***************************************************************************)
SeqsUpTo(S, n) == UNION {[1..k -> S] : k \in 0..n}

Halves(n) == {Rat(k, 2) : k \in (-n)..n}

Optional(S) == {None} \cup {Some(x) : x \in S}

\* operation names of POST /math: the six the handler knows and two it does not
MathOperationNames ==
    {"statistics", "quadratic", "factorial", "logarithm", "trigonometry", "power",
     "median", ""}

MathRequest(operation, values, a, b, c) ==
    [operation |-> operation, values |-> values, a |-> a, b |-> b, c |-> c]

\* the requests the claims name
ExampleMathRequests ==
    {MathRequest("quadratic", <<>>, Some(Float(1)), Some(Float(-3)), Some(Float(2))),
     MathRequest("quadratic", <<>>, Some(Float(1)), Some(Float(2)), Some(Float(1))),
     MathRequest("quadratic", <<>>, Some(Float(1)), Some(Float(0)), Some(Float(1))),
     MathRequest("quadratic", <<>>, Some(Float(0)), Some(Float(1)), Some(Float(1))),
     MathRequest("factorial", <<Float(5)>>, None, None, None),
     MathRequest("factorial", <<Float(-1)>>, None, None, None),
     MathRequest("factorial", <<Float(4)>>, None, None, None)}

MathRequests ==
    {MathRequest(op, values, None, None, None) :
        op \in MathOperationNames, values \in SeqsUpTo(Halves(MaxHalves), MaxLen)}
    \cup {MathRequest("quadratic", <<>>, a, b, c) :
            a \in Optional(Halves(MaxHalves)), b \in Optional(Halves(MaxHalves)),
            c \in Optional(Halves(MaxHalves))}
    \cup ExampleMathRequests

StatisticsRequests ==
    {MathRequest("statistics", values, None, None, None) :
        values \in SeqsUpTo(Halves(StatMaxHalves), StatMaxLen)}

TextRequest(text, operation, extraction_type) ==
    [text |-> text, operation |-> operation, extraction_type |-> extraction_type]

\* characters of the generated texts
Alphabet == {"a", "1", ".", " "}

\* transformation and extraction types: the ten the functions know, one they do
\* not, the empty string, and none given
ExtractionTypes ==
    Optional({"upper", "lower", "title", "reverse", "pig_latin",
              "emails", "urls", "phone_numbers", "dates", "numbers", "rot13", ""})

HelloWorld == <<"H", "e", "l", "l", "o", " ", "w", "o", "r", "l", "d", ".">>

CallText ==
    <<"C", "a", "l", "l", " ", "5", "5", "5", "-", "1", "2", "3", "-", "4", "5", "6", "7",
      " ", "o", "r", " ", "(", "5", "5", "5", ")", " ", "1", "2", "3", "-", "4", "5",
      "6", "7">>

ExampleTextRequests ==
    {TextRequest(HelloWorld, "transform", Some("pig_latin")),
     TextRequest(CallText, "extract", Some("phone_numbers")),
     TextRequest(<<"A", "B", "C">>, "transform", Some("reverse"))}

TextRequests ==
    {TextRequest(text, op, type) :
        text \in SeqsUpTo(Alphabet, MaxTextLen),
        op \in {"transform", "extract"}, type \in ExtractionTypes}
    \cup {TextRequest(text, op, None) :
            text \in SeqsUpTo(Alphabet, MaxTextLen), op \in {"analyze", "summarize"}}
    \cup ExampleTextRequests

\* characters of the generated pig-latin texts: vowels and consonants of both
\* cases, two trailing punctuation characters, a space
PigAlphabet == {"a", "E", "b", "H", ".", "!", " "}

PigLatinRequests ==
    {TextRequest(text, "transform", Some("pig_latin")) :
        text \in SeqsUpTo(PigAlphabet, PigMaxTextLen)}
    \cup {TextRequest(HelloWorld, "transform", Some("pig_latin"))}

\* what a phone number may open with: nothing, a parenthesis, a country code
PhonePrefixes == {<<>>, <<"(">>, <<"1", "-">>, <<"+", "1", " ">>}

PhoneSeparators == {<<>>, <<"-">>, <<".">>, <<" ">>}

\* a last group of four digits, and one of three that completes no number
PhoneLastGroups == {<<"4", "5", "6", "7">>, <<"4", "5", "6">>}

PhoneTexts ==
    {prefix \o <<"5", "5", "5">> \o close \o s1 \o <<"1", "2", "3">> \o s2 \o last :
        prefix \in PhonePrefixes, close \in {<<>>, <<")">>},
        s1 \in PhoneSeparators, s2 \in PhoneSeparators, last \in PhoneLastGroups}

\* a second number after the first: the same one again, or another
PhoneSuffixes ==
    {<<>>}
    \cup {joiner \o number :
            joiner \in {<<" ">>, <<" ", "o", "r", " ">>, <<>>},
            number \in {<<"5", "5", "5", "-", "1", "2", "3", "-", "4", "5", "6", "7">>,
                        <<"(", "8", "0", "0", ")", " ", "5", "5", "5", " ",
                          "0", "1", "9", "9">>}}

\* texts with matches of the other four kinds, some of them repeated
ExtractExamples ==
    {TextRequest(<<"a", "@", "b", ".", "c", "o", " ", "x", " ", "a", "@", "b", ".", "c", "o">>,
                 "extract", Some("emails")),
     TextRequest(<<"h", "t", "t", "p", ":", "/", "/", "a", ".", "b", " ",
                   "h", "t", "t", "p", "s", ":", "/", "/", "c", " ",
                   "h", "t", "t", "p", ":", "/", "/", "a", ".", "b">>,
                 "extract", Some("urls")),
     TextRequest(<<"1", "/", "2", "/", "2", "0", "2", "4", " ",
                   "2", "0", "2", "4", "-", "0", "1", "-", "0", "2", " ",
                   "1", "/", "2", "/", "2", "0", "2", "4">>,
                 "extract", Some("dates")),
     TextRequest(<<"1", "/", "2", "/", "2", "0", "2", "4", " ",
                   "2", "0", "2", "4", "-", "0", "1", "-", "0", "2", " ",
                   "1", "/", "2", "/", "2", "0", "2", "4">>,
                 "extract", Some("numbers"))}

ExtractRequests ==
    {TextRequest(first \o second, "extract", Some("phone_numbers")) :
        first \in PhoneTexts, second \in PhoneSuffixes}
    \cup {TextRequest(text, "extract", Some(kind)) :
            text \in SeqsUpTo(Alphabet, MaxTextLen),
            kind \in {"emails", "urls", "phone_numbers", "dates", "numbers"}}
    \cup {TextRequest(CallText, "extract", Some("phone_numbers"))}
    \cup ExtractExamples

\* characters of the analyzed texts: letters of both cases, the period, a space
\* and a line break
AnalyzeAlphabet == {"a", "B", ".", " ", "\n"}

AnalyzeRequests ==
    {TextRequest(text, "analyze", None) : text \in SeqsUpTo(AnalyzeAlphabet, AnalyzeMaxTextLen)}

\* calls of both handlers, successful and failing, that are made again later
RepeatCalls ==
    {[endpoint |-> "/math", request |-> req] :
        req \in ExampleMathRequests
                \cup {MathRequest(op, values, None, None, None) :
                        op \in {"statistics", "logarithm", "power", "median"},
                        values \in SeqsUpTo({Float(1), Float(2)}, RepeatMaxLen)}}
    \cup {[endpoint |-> "/text", request |-> req] :
            req \in ExampleTextRequests
                    \cup {TextRequest(text, "analyze", None) :
                            text \in SeqsUpTo({"a", "."}, RepeatMaxLen)}
                    \cup {TextRequest(<<"a", "1">>, op, type) :
                            op \in {"transform", "extract", "summarize"},
                            type \in {None, Some("title"), Some("numbers")}}}

(***************************************************************************)
(* The server: it holds no state between requests.  A request arrives, its  *)
(* handler runs to a response or an HTTPException, and the reply is sent.  *)
(***************************************************************************)
Init ==
    /\ pc = "idle"
    /\ endpoint = None
    /\ request = None
    /\ response = None
    /\ earlier = None

ReceiveMath ==
    /\ pc = "idle"
    /\ endpoint' = "/math"
    /\ request' \in MathRequests
    /\ pc' = "received"
    /\ UNCHANGED <<response, earlier>>

ReceiveText ==
    /\ pc = "idle"
    /\ endpoint' = "/text"
    /\ request' \in TextRequests
    /\ pc' = "received"
    /\ UNCHANGED <<response, earlier>>

ReceiveStatistics ==
    /\ pc = "idle"
    /\ endpoint' = "/math"
    /\ request' \in StatisticsRequests
    /\ pc' = "received"
    /\ UNCHANGED <<response, earlier>>

ReceivePigLatin ==
    /\ pc = "idle"
    /\ endpoint' = "/text"
    /\ request' \in PigLatinRequests
    /\ pc' = "received"
    /\ UNCHANGED <<response, earlier>>

ReceiveRepeat ==
    /\ pc = "idle"
    /\ \E call \in RepeatCalls :
          /\ endpoint' = call.endpoint
          /\ request' = call.request
    /\ pc' = "received"
    /\ UNCHANGED <<response, earlier>>

ReceiveAnalyze ==
    /\ pc = "idle"
    /\ endpoint' = "/text"
    /\ request' \in AnalyzeRequests
    /\ pc' = "received"
    /\ UNCHANGED <<response, earlier>>

ReceiveExtract ==
    /\ pc = "idle"
    /\ endpoint' = "/text"
    /\ request' \in ExtractRequests
    /\ pc' = "received"
    /\ UNCHANGED <<response, earlier>>

\* @app.post("/math")
MathOperations ==
    /\ pc = "received"
    /\ endpoint = "/math"
    /\ response' = math_operations(request)
    /\ pc' = "responded"
    /\ UNCHANGED <<endpoint, request, earlier>>

\* @app.post("/text")
TextOperations ==
    /\ pc = "received"
    /\ endpoint = "/text"
    /\ response' = text_operations(request)
    /\ pc' = "responded"
    /\ UNCHANGED <<endpoint, request, earlier>>

\* the reply is sent; nothing of the request is kept
Reply ==
    /\ pc = "responded"
    /\ pc' = "idle"
    /\ endpoint' = None
    /\ request' = None
    /\ response' = None
    /\ UNCHANGED earlier

\* the reply is sent as in Reply, and an observer of the server notes the first
\* call it ever answered: earlier is the observer's note, not a field of the server
ReplyNoted ==
    /\ pc = "responded"
    /\ pc' = "idle"
    /\ endpoint' = None
    /\ request' = None
    /\ response' = None
    /\ earlier' = IF earlier = None
                  THEN Some([endpoint |-> endpoint, request |-> request,
                             response |-> response])
                  ELSE earlier

Next == ReceiveMath \/ ReceiveText \/ MathOperations \/ TextOperations \/ Reply

Spec == Init /\ [][Next]_vars

NextStatistics == ReceiveStatistics \/ MathOperations \/ Reply

SpecStatistics == Init /\ [][NextStatistics]_vars

NextPigLatin == ReceivePigLatin \/ TextOperations \/ Reply

SpecPigLatin == Init /\ [][NextPigLatin]_vars

NextRepeat == ReceiveRepeat \/ MathOperations \/ TextOperations \/ ReplyNoted

SpecRepeat == Init /\ [][NextRepeat]_vars

NextAnalyze == ReceiveAnalyze \/ TextOperations \/ Reply

SpecAnalyze == Init /\ [][NextAnalyze]_vars

NextExtract == ReceiveExtract \/ TextOperations \/ Reply

SpecExtract == Init /\ [][NextExtract]_vars

(***************************************************************************)
(* The properties.                                                         *)
(***************************************************************************)
KnownMathOperations ==
    {"statistics", "quadratic", "factorial", "logarithm", "trigonometry", "power"}

ValidModes == {"upper", "lower", "title", "reverse", "pig_latin"}

ValidKinds == {"emails", "urls", "phone_numbers", "dates", "numbers"}

MathResponded == pc = "responded" /\ endpoint = "/math"

TextResponded == pc = "responded" /\ endpoint = "/text"

\* a successful response carrying a result
IsSuccess(r) ==
    r.tag = "return" /\ r.value.success = TRUE /\ "result" \in DOMAIN r.value

\* a classified error: HTTP 400 is invalid_input, HTTP 500 is internal
IsError(r, status_code) ==
    r.tag = "raise" /\ r.exc = "HTTPException" /\ r.status_code = status_code

\* the failures of POST /math that the caller's input causes
MathCallerFault(req) ==
    \/ req.operation \notin KnownMathOperations
    \/ req.operation = "statistics" /\ req.values = <<>>
    \/ req.operation = "quadratic" /\ req.a = Some(Float(0))
    \/ req.operation = "factorial"
       /\ (Len(req.values) # 1 \/ req.values[1].num < 0)
    \/ req.operation = "logarithm" /\ Len(req.values) \notin {1, 2}
    \/ req.operation = "trigonometry" /\ Len(req.values) # 1
    \/ req.operation = "power" /\ Len(req.values) # 2

\* the failures of POST /text that the caller's input causes
TextCallerFault(req) ==
    \/ req.operation \notin {"analyze", "transform", "extract"}
    \/ req.operation = "transform"
       /\ req.extraction_type \notin {Some(m) : m \in ValidModes}
    \/ req.operation = "extract"
       /\ req.extraction_type \notin {Some(k) : k \in ValidKinds}

\* C1: every call of math_operations and of text_operations ends in a successful
\* response carrying a result or in a classified error (HTTP 400 or 500), and a
\* failure caused by the caller's input (unknown operation, wrong argument count,
\* empty statistics list, a == 0, negative factorial argument, unknown
\* transformation or extraction type) is always HTTP 400, never 500.
C1_DispatchOutcome ==
    /\ pc = "responded" =>
          IsSuccess(response) \/ IsError(response, 400) \/ IsError(response, 500)
    /\ MathResponded /\ MathCallerFault(request) => IsError(response, 400)
    /\ TextResponded /\ TextCallerFault(request) => IsError(response, 400)

\* C1's case: a factorial request with a negative argument, answered HTTP 400.
C1_Witness ==
    /\ MathResponded
    /\ request.operation = "factorial"
    /\ request.values = <<Float(-1)>>
    /\ IsError(response, 400)

\* a quadratic request with the three coefficients given
IsQuadratic(req) ==
    req.operation = "quadratic" /\ req.a # None /\ req.b # None /\ req.c # None

\* b*b - 4*a*c of a quadratic request
Discriminant(req) ==
    RSub(RMul(req.b[1], req.b[1]), RMul(Float(4), RMul(req.a[1], req.c[1])))

\* x is the root (-b + sign*sqrt(d)) / (2a), sign being 1 or -1: for a rational x,
\* 2a*x + b is the square root of d with that sign; otherwise x is the expression
IsRoot(x, req, sign) ==
    LET a == req.a[1]
        b == req.b[1]
        d == Discriminant(req)
        s == RAdd(RMul(RMul(Float(2), a), x), b)
    IN  IF IsRat(x)
        THEN /\ RMul(s, s) = d
             /\ RLe(Float(0), RMul(Float(sign), s))
             /\ IsZero(RAdd(RAdd(RMul(a, RMul(x, x)), RMul(b, x)), req.c[1]))
        ELSE x = Expr("/", Expr(IF sign = 1 THEN "+" ELSE "-", RNeg(b),
                                Expr("sqrt", d, None)),
                      RMul(Float(2), a))

IsNumber(x) == "str" \notin DOMAIN x

\* C2: for a != 0 solve_quadratic reports discriminant = b*b - 4*a*c; root_type is
\* "real_distinct" with the two numeric roots (-b + sqrt(d))/(2a), (-b - sqrt(d))/(2a)
\* in that order exactly when d > 0, "real_repeated" with the one root -b/(2a)
\* exactly when d == 0, "complex" with two string roots exactly when d < 0;
\* quadratic(1, -3, 2) gives [2, 1] with discriminant 1 and quadratic(1, 2, 1)
\* gives [-1] with discriminant 0.
C2_QuadraticRoots ==
    MathResponded /\ IsQuadratic(request) /\ ~IsZero(request.a[1]) =>
        /\ IsSuccess(response)
        /\ LET result == response.value.result
               d == Discriminant(request)
           IN  /\ result.discriminant = d
               /\ result.root_type \in {"real_distinct", "real_repeated", "complex"}
               /\ result.root_type = "real_distinct" <=> RLt(Float(0), d)
               /\ result.root_type = "real_repeated" <=> IsZero(d)
               /\ result.root_type = "complex" <=> RLt(d, Float(0))
               /\ result.root_type = "real_distinct" =>
                     /\ Len(result.roots) = 2
                     /\ IsNumber(result.roots[1]) /\ IsNumber(result.roots[2])
                     /\ IsRoot(result.roots[1], request, 1)
                     /\ IsRoot(result.roots[2], request, -1)
               /\ result.root_type = "real_repeated" =>
                     /\ Len(result.roots) = 1
                     /\ IsNumber(result.roots[1])
                     /\ IsRoot(result.roots[1], request, 1)
                     /\ IsRoot(result.roots[1], request, -1)
               /\ result.root_type = "complex" =>
                     /\ Len(result.roots) = 2
                     /\ ~IsNumber(result.roots[1]) /\ ~IsNumber(result.roots[2])
               /\ <<request.a[1], request.b[1], request.c[1]>>
                     = <<Float(1), Float(-3), Float(2)>>
                  => result.roots = <<Float(2), Float(1)>> /\ result.discriminant = Float(1)
               /\ <<request.a[1], request.b[1], request.c[1]>>
                     = <<Float(1), Float(2), Float(1)>>
                  => result.roots = <<Float(-1)>> /\ result.discriminant = Float(0)

\* C2's case: quadratic(1, -3, 2) answered with the roots [2, 1].
C2_Witness ==
    /\ MathResponded
    /\ IsQuadratic(request)
    /\ <<request.a[1], request.b[1], request.c[1]>> = <<Float(1), Float(-3), Float(2)>>
    /\ IsSuccess(response)
    /\ response.value.result.roots = <<Float(2), Float(1)>>

\* C3: solve_quadratic with a == 0 fails with invalid_input (HTTP 400) for every b
\* and c, through the division by 2*a, and never returns a result.
C3_ZeroLeadingCoefficient ==
    MathResponded /\ IsQuadratic(request) /\ IsZero(request.a[1]) =>
        /\ IsError(response, 400)
        /\ response.detail = <<"Error solving quadratic: ", "float division by zero">>

\* C3's case: a == 0 with b != 0, where the discriminant b*b is positive and the
\* two-root branch divides by zero.
C3_Witness ==
    /\ MathResponded
    /\ IsQuadratic(request)
    /\ IsZero(request.a[1]) /\ ~IsZero(request.b[1])
    /\ RLt(Float(0), Discriminant(request))
    /\ IsError(response, 400)

IsStatistics(req) == req.operation = "statistics"

StatisticsFields ==
    {"count", "mean", "median", "mode", "std_dev", "variance", "min", "max", "range",
     "sum"}

C5_StatisticsBounds ==
    MathResponded /\ IsStatistics(request) /\ request.values # <<>> =>
        LET result == response.value.result
            count == Float(result.count)
        IN  /\ RLe(result.min, result.mean) /\ RLe(result.mean, result.max)
            /\ RLe(RMul(result.min, count), result.sum)
            /\ RLe(result.sum, RMul(result.max, count))
            /\ RAdd(result.min, result.range) = result.max
            /\ result.count = Len(request.values)
            /\ result.min \in Range(request.values)
            /\ result.max \in Range(request.values)
            /\ \A i \in DOMAIN request.values :
                  RLe(result.min, request.values[i]) /\ RLe(request.values[i], result.max)

\* C5's case: a list of distinct values with the greatest one first.
C5_Witness ==
    /\ MathResponded
    /\ IsStatistics(request)
    /\ Len(request.values) >= 2
    /\ RLt(request.values[Len(request.values)], request.values[1])
    /\ IsSuccess(response)
    /\ response.value.result.max = request.values[1]
    /\ RLt(response.value.result.min, response.value.result.mean)

\* how often v occurs in values
CountOf(values, v) == Cardinality({i \in DOMAIN values : values[i] = v})

\* the first position of v in values
FirstIndex(values, v) ==
    CHOOSE i \in DOMAIN values :
        values[i] = v /\ \A k \in 1..(i - 1) : values[k] # v

\* C6: mode is null exactly when the values are pairwise distinct; otherwise it
\* is an element of the list whose number of occurrences is maximal, the first
\* such in list order.
C6_StatisticsMode ==
    MathResponded /\ IsStatistics(request) /\ request.values # <<>> =>
        LET values == request.values
            mode == response.value.result.mode
            distinct == \A i, j \in DOMAIN values : values[i] = values[j] => i = j
        IN  /\ mode = None <=> distinct
            /\ ~distinct =>
                  /\ Len(mode) = 1
                  /\ mode[1] \in Range(values)
                  /\ \A i \in DOMAIN values :
                        CountOf(values, values[i]) <= CountOf(values, mode[1])
                  /\ \A k \in 1..(FirstIndex(values, mode[1]) - 1) :
                        CountOf(values, values[k]) < CountOf(values, mode[1])

\* C6's case: two values tie for the highest count and the first one is the mode.
C6_Witness ==
    /\ MathResponded
    /\ IsStatistics(request)
    /\ Len(request.values) = 4
    /\ request.values[1] = request.values[4]
    /\ request.values[2] = request.values[3]
    /\ request.values[1] # request.values[2]
    /\ IsSuccess(response)
    /\ response.value.result.mode = Some(request.values[1])

\* n! for the arguments the requests reach
FactorialTable == <<1, 2, 6, 24, 120, 720, 5040, 40320>>

Factorial(n) == IF n = 0 THEN 1 ELSE FactorialTable[n]

\* C7: advanced_math_operations("factorial", values) returns n! when values is
\* exactly one non-negative integer-valued number n ([5] gives 120) and fails with
\* invalid_input in every other case: empty list, more than one value, a negative
\* value, a non-integer value.
C7_Factorial ==
    MathResponded /\ request.operation = "factorial" =>
        IF /\ Len(request.values) = 1
           /\ request.values[1].den = 1
           /\ request.values[1].num >= 0
        THEN /\ IsSuccess(response)
             /\ response.value.result = Factorial(request.values[1].num)
        ELSE IsError(response, 400)

\* C7's case: factorial of [5] answered 120.
C7_Witness ==
    /\ MathResponded
    /\ request.operation = "factorial"
    /\ request.values = <<Float(5)>>
    /\ IsSuccess(response)
    /\ response.value.result = 120

\* C8: in the numeric dispatcher a wrong number of values (logarithm: other than 1
\* or 2, trigonometry: other than 1, power: other than 2) and an operation name
\* outside the six known ones always fail with invalid_input, never with a result.
C8_ArityAndUnknownOperation ==
    /\ MathResponded
    /\ \/ request.operation = "logarithm" /\ Len(request.values) \notin {1, 2}
       \/ request.operation = "trigonometry" /\ Len(request.values) # 1
       \/ request.operation = "power" /\ Len(request.values) # 2
       \/ request.operation \notin KnownMathOperations
    => /\ ~IsSuccess(response)
       /\ IsError(response, 400)

\* C8's case: a logarithm request with three values, answered HTTP 400.
C8_Witness ==
    /\ MathResponded
    /\ request.operation = "logarithm"
    /\ Len(request.values) = 3
    /\ IsError(response, 400)
    /\ response.detail = <<"Error in math operation: ", "Logarithm requires 1 or 2 values">>

IsPigLatin(req) == req.operation = "transform" /\ req.extraction_type = Some("pig_latin")

IsVowel(c) == c \in {"a", "e", "i", "o", "u", "A", "E", "I", "O", "U"}

\* the pig-latin rule for one word: out is the stripped word plus "way" when it
\* starts with a vowel, else the stripped word with its leading run of k
\* non-vowels moved to the end plus "ay"; the detached punctuation follows
IsPigLatinOf(word, out) ==
    LET detach == word[Len(word)] \in {".", ",", "!", "?", ";", ":"}
        stripped == IF detach THEN SubSeq(word, 1, Len(word) - 1) ELSE word
        tail == IF detach THEN <<word[Len(word)]>> ELSE <<>>
    IN  stripped # <<>> =>
           IF IsVowel(stripped[1])
           THEN out = stripped \o <<"w", "a", "y">> \o tail
           ELSE \E k \in 1..Len(stripped) :
                   /\ \A i \in 1..k : ~IsVowel(stripped[i])
                   /\ k < Len(stripped) => IsVowel(stripped[k + 1])
                   /\ out = SubSeq(stripped, k + 1, Len(stripped))
                            \o SubSeq(stripped, 1, k) \o <<"a", "y">> \o tail

\* C9: transform_text(text, "pig_latin") transforms each whitespace-delimited word
\* by the pig-latin rule, one trailing punctuation character of .,!?;: detached
\* before and reattached after; "Hello world." becomes "elloHay orldway.".
C9_PigLatin ==
    TextResponded /\ IsPigLatin(request) =>
        /\ IsSuccess(response)
        /\ LET words == str_split(request.text)
               out == str_split(response.value.result)
           IN  /\ Len(out) = Len(words)
               /\ \A i \in DOMAIN words : IsPigLatinOf(words[i], out[i])
        /\ request.text = HelloWorld =>
              response.value.result =
                 <<"e", "l", "l", "o", "H", "a", "y", " ",
                   "o", "r", "l", "d", "w", "a", "y", ".">>

\* C9's case: "Hello world." answered "elloHay orldway.".
C9_Witness ==
    /\ TextResponded
    /\ IsPigLatin(request)
    /\ request.text = HelloWorld
    /\ IsSuccess(response)
    /\ response.value.result =
          <<"e", "l", "l", "o", "H", "a", "y", " ", "o", "r", "l", "d", "w", "a", "y", ".">>

\* the message of an error names every valid extraction kind
ReportsValidKinds(detail) == \A k \in ValidKinds : k \in Range(detail)

\* C10 as stated: every extraction kind outside the five, the empty string and an
\* absent kind included, fails with invalid_input and a message that reports the
\* valid kind set.
C10_AsStated ==
    /\ TextResponded
    /\ request.operation = "extract"
    /\ request.extraction_type \notin {Some(k) : k \in ValidKinds}
    => /\ IsError(response, 400)
       /\ ReportsValidKinds(response.detail)

\* C10 as amended: every non-empty extraction kind outside the five fails with
\* invalid_input and a message that reports the valid kind set; the empty string
\* and an absent kind fail with invalid_input too, with the message "Extract
\* operation requires extraction type", which names no kind.
C10_UnknownKind ==
    /\ TextResponded
    /\ request.operation = "extract"
    /\ request.extraction_type \notin {Some(k) : k \in ValidKinds}
    => /\ IsError(response, 400)
       /\ IF request.extraction_type \in {None, Some("")}
          THEN response.detail = <<"Extract operation requires extraction type">>
          ELSE /\ ReportsValidKinds(response.detail)
               /\ request.extraction_type[1] \in Range(response.detail)

\* C10's case: the unknown kind "rot13", answered HTTP 400 with the five kinds in
\* the message.
C10_Witness ==
    /\ TextResponded
    /\ request.operation = "extract"
    /\ request.extraction_type = Some("rot13")
    /\ IsError(response, 400)
    /\ ReportsValidKinds(response.detail)

IsExtract(req, kind) == req.operation = "extract" /\ req.extraction_type = Some(kind)

DigitsOf(str) == SelectSeq(str, LAMBDA c : c \in Digits)

\* "(AAA) BBB-CCCC"
IsPhoneDisplay(entry) ==
    /\ Len(entry) = 14
    /\ entry[1] = "(" /\ entry[5] = ")" /\ entry[6] = " " /\ entry[10] = "-"
    /\ \A i \in {2, 3, 4, 7, 8, 9, 11, 12, 13, 14} : entry[i] \in Digits

\* text[from..to] is ten digits, written with separators and parentheses only
IsPhoneSpan(text, from, to, digits) ==
    /\ \A i \in from..to : text[i] \in Digits \cup {"(", ")", "-", ".", " "}
    /\ DigitsOf(SubSeq(text, from, to)) = digits

\* the earliest end of a span of these digits that starts at pos or later; 0 if none
PhoneSpanEnd(text, digits, pos) ==
    LET ends == {to \in pos..Len(text) :
                    \E from \in pos..to :
                        to - from \in 9..13 /\ IsPhoneSpan(text, from, to, digits)}
    IN  IF ends = {} THEN 0 ELSE CHOOSE to \in ends : \A other \in ends : to <= other

\* the entries are numbers written in the text at pos or later, one after another
RECURSIVE PhonesInOrder(_, _, _)
PhonesInOrder(text, entries, pos) ==
    entries = <<>>
    \/ LET to == PhoneSpanEnd(text, DigitsOf(Head(entries)), pos)
       IN  to # 0 /\ PhonesInOrder(text, Tail(entries), to + 1)

\* the earliest end of an occurrence of entry that starts at pos or later; 0 if none
SubstringEnd(text, entry, pos) ==
    LET ends == {to \in pos..Len(text) :
                    /\ to - Len(entry) + 1 >= pos
                    /\ SubSeq(text, to - Len(entry) + 1, to) = entry}
    IN  IF ends = {} THEN 0 ELSE CHOOSE to \in ends : \A other \in ends : to <= other

\* the entries are non-empty pieces of the text at pos or later, one after another
RECURSIVE SubstringsInOrder(_, _, _)
SubstringsInOrder(text, entries, pos) ==
    entries = <<>>
    \/ LET to == SubstringEnd(text, Head(entries), pos)
       IN  Head(entries) # <<>> /\ to # 0 /\ SubstringsInOrder(text, Tail(entries), to + 1)

FormattedCall == <<"(", "5", "5", "5", ")", " ", "1", "2", "3", "-", "4", "5", "6", "7">>

\* C11: extract_information(text, "phone_numbers") returns its entries in the order
\* the numbers appear in the text, one after another without overlap, repeated
\* numbers repeated, each in the form "(AAA) BBB-CCCC" made of the ten digits the
\* text wrote, whatever separators or parentheses it used; a text with fewer than
\* ten digits has no entry, and "Call 555-123-4567 or (555) 123-4567" has exactly
\* two, both "(555) 123-4567".  For the other four kinds the entries are pieces of
\* the text as written, in order of appearance, repeated pieces repeated.
C11_ExtractEntries ==
    /\ TextResponded /\ IsExtract(request, "phone_numbers") =>
          /\ IsSuccess(response)
          /\ LET entries == response.value.result.json
             IN  /\ \A i \in DOMAIN entries : IsPhoneDisplay(entries[i])
                 /\ PhonesInOrder(request.text, entries, 1)
                 /\ Len(DigitsOf(request.text)) < 10 => entries = <<>>
                 /\ request.text = CallText => entries = <<FormattedCall, FormattedCall>>
    /\ TextResponded /\ (\E kind \in ValidKinds \ {"phone_numbers"} : IsExtract(request, kind)) =>
          /\ IsSuccess(response)
          /\ SubstringsInOrder(request.text, response.value.result.json, 1)
          /\ request \in ExtractExamples =>
                \E i, j \in DOMAIN response.value.result.json :
                    i < j /\ response.value.result.json[i] = response.value.result.json[j]

\* C11's case: one number written twice in two ways, answered as two equal entries.
C11_Witness ==
    /\ TextResponded
    /\ IsExtract(request, "phone_numbers")
    /\ request.text = CallText
    /\ IsSuccess(response)
    /\ response.value.result.json = <<FormattedCall, FormattedCall>>

TokenStarts(str) ==
    {i \in DOMAIN str : str[i] \notin Whitespace /\ (i = 1 \/ str[i - 1] \in Whitespace)}

\* str has a single space between tokens and no other whitespace
IsSingleSpaced(str) ==
    /\ \A i \in DOMAIN str : str[i] \in Whitespace => str[i] = " "
    /\ \A i \in DOMAIN str :
          str[i] = " " => /\ i > 1 /\ i < Len(str)
                           /\ str[i - 1] # " " /\ str[i + 1] # " "

IsLonePunctuation(word) == Len(word) = 1 /\ word[1] \in {".", ",", "!", "?", ";", ":"}

EndsWithAy(word) ==
    LET n == IF word[Len(word)] \in {".", ",", "!", "?", ";", ":"}
             THEN Len(word) - 1 ELSE Len(word)
    IN  n >= 2 /\ word[n - 1] = "a" /\ word[n] = "y"

\* C13: the output of transform_text in pig_latin mode has the tokens of the input,
\* as many and in the same order, each transformed, with exactly one space between
\* two of them and no whitespace before the first or after the last; a token that
\* is one character of .,!?;: is passed through unchanged, with no "ay" or "way",
\* and every other token gains "ay" or "way".
C13_PigLatinTokens ==
    TextResponded /\ IsPigLatin(request) =>
        /\ IsSuccess(response)
        /\ LET out == response.value.result
               words == str_split(request.text)
               tokens == str_split(out)
           IN  /\ IsSingleSpaced(out)
               /\ Cardinality(TokenStarts(out)) = Cardinality(TokenStarts(request.text))
               /\ Len(tokens) = Len(words)
               /\ \A i \in DOMAIN words :
                     IF IsLonePunctuation(words[i])
                     THEN tokens[i] = words[i]
                     ELSE /\ EndsWithAy(tokens[i])
                          /\ Len(tokens[i]) \in {Len(words[i]) + 2, Len(words[i]) + 3}
                          /\ Range(words[i]) \subseteq Range(tokens[i])

\* C13's case: a word, a run of two spaces and a lone period, answered as the
\* transformed word, one space and the period.
C13_Witness ==
    /\ TextResponded
    /\ IsPigLatin(request)
    /\ request.text = <<"a", " ", " ", ".">>
    /\ IsSuccess(response)
    /\ response.value.result = <<"a", "w", "a", "y", " ", ".">>

\* the places where a sentence of text starts: a character that is neither
\* whitespace nor a period, with only whitespace between it and the period before
SentenceStarts(text) ==
    {i \in DOMAIN text :
        /\ text[i] \notin Whitespace \cup {"."}
        /\ \A k \in 1..(i - 1) :
              (\A j \in k..(i - 1) : text[j] # ".") => text[k] \in Whitespace}

\* x is a number of hundredths nearest to n / d
IsRounded2(x, n, d) ==
    /\ (100 * x.num) % x.den = 0
    /\ 200 * Abs(x.num * d - n * x.den) <= x.den * d

\* C14: analyze_text reports as sentence_count the number of pieces between the
\* periods of the text that hold something besides whitespace, and as
\* avg_sentence_length word_count / sentence_count rounded to 2 decimals, or 0 when
\* sentence_count is 0; it never fails, not for the empty text, a text of
\* whitespace or a text of periods (one word, no sentence).
C14_SentenceCount ==
    TextResponded /\ request.operation = "analyze" =>
        /\ IsSuccess(response)
        /\ LET result == response.value.result.json
           IN  /\ result.word_count = Cardinality(TokenStarts(request.text))
               /\ result.sentence_count = Cardinality(SentenceStarts(request.text))
               /\ IF result.sentence_count > 0
                  THEN IsRounded2(result.avg_sentence_length,
                                  result.word_count, result.sentence_count)
                  ELSE result.avg_sentence_length = Float(0)
               /\ request.text = <<".", ".">> =>
                     result.word_count = 1 /\ result.sentence_count = 0

\* C14's case: one word in three sentences, 0.33 words to a sentence.
C14_Witness ==
    /\ TextResponded
    /\ request.operation = "analyze"
    /\ request.text = <<"a", ".", "a", ".", "a">>
    /\ IsSuccess(response)
    /\ response.value.result.json.word_count = 1
    /\ response.value.result.json.sentence_count = 3
    /\ response.value.result.json.avg_sentence_length = Rat(33, 100)

\* the token of text that starts at i: up to the next whitespace or the end
TokenAt(text, i) ==
    LET last == CHOOSE k \in i..Len(text) :
                    /\ \A j \in i..k : text[j] \notin Whitespace
                    /\ (k = Len(text) \/ text[k + 1] \in Whitespace)
    IN  SubSeq(text, i, last)

\* C15: for a text with at least one whitespace-delimited token, analyze_text
\* returns as longest_word the first token of the text whose length, punctuation
\* counted, is the greatest, and as shortest_word the first whose length is the
\* least, so that shortest_word is no longer than longest_word; for a text without
\* tokens both are the empty string.
C15_LongestShortestWord ==
    TextResponded /\ request.operation = "analyze" =>
        /\ IsSuccess(response)
        /\ LET result == response.value.result.json
               text == request.text
               starts == TokenStarts(text)
           IN  IF starts = {}
               THEN result.longest_word = <<>> /\ result.shortest_word = <<>>
               ELSE /\ \E i \in starts :
                         /\ result.longest_word = TokenAt(text, i)
                         /\ \A j \in starts :
                               /\ Len(TokenAt(text, j)) <= Len(TokenAt(text, i))
                               /\ j < i => Len(TokenAt(text, j)) < Len(TokenAt(text, i))
                    /\ \E i \in starts :
                         /\ result.shortest_word = TokenAt(text, i)
                         /\ \A j \in starts :
                               /\ Len(TokenAt(text, i)) <= Len(TokenAt(text, j))
                               /\ j < i => Len(TokenAt(text, i)) < Len(TokenAt(text, j))
                    /\ Len(result.shortest_word) <= Len(result.longest_word)

\* C15's case: two tokens of the same length, the first of them reported as the
\* longest and as the shortest word.
C15_Witness ==
    /\ TextResponded
    /\ request.operation = "analyze"
    /\ request.text = <<"a", "B", " ", "B", "a">>
    /\ IsSuccess(response)
    /\ response.value.result.json.longest_word = <<"a", "B">>
    /\ response.value.result.json.shortest_word = <<"a", "B">>

====
